---- MODULE Spec2Model ----
(***************************************************************************)
(* State-machine model of the CityWalker sample-construction pipeline:     *)
(*   src/data/citywalk_dataset.py  (CityWalkSampler, CityWalkDataset)       *)
(*   src/data/urbannav_dataset.py  (UrbanNavDataset)                        *)
(*                                                                         *)
(* Python indices are kept 0-based as in the source (lut entries, ranges,  *)
(* offsets); TLA+ sequences are 1-based, so element k of a Python list s   *)
(* is s[k + 1] here.                                                       *)
(*                                                                         *)
(* Real arithmetic is kept exact by drawing the inputs from integer        *)
(* positions and from the unit quaternions with integer components (the    *)
(* identity and the half turns about the three axes), for which the        *)
(* quaternion-to-matrix formula and the rigid inverse are exact.           *)
(***************************************************************************)
EXTENDS Integers, Sequences, FiniteSets, TLC

VARIABLES
    source,              \* "video" (CityWalkDataset) or "robot" (UrbanNavDataset)
    mode,                \* the mode string handed to the constructor
    cfg,                 \* the configuration record
    pose_files,          \* the raw logs found on disk, in sorted order
    pc,                  \* "new" | "ready" | the name of the exception raised by __init__
    pose_path,           \* self.pose_path: ids (1-based positions in pose_files) of the split
    poses,               \* self.poses
    count,               \* self.count
    lut,                 \* self.lut
    ranges,              \* self.video_ranges / self.sequence_ranges
    video_path,          \* self.video_path (video source)
    image_folders,       \* self.image_folders (robot source)
    gps_positions,       \* self.gps_positions (robot source)
    image_names,         \* self.image_names (robot source)
    video_reader_cache,  \* self.video_reader_cache (video source)
    opened,              \* number of VideoReader objects created so far
    indices,             \* CityWalkSampler.indices ("none" before the sampler exists)
    yielded,             \* the order produced by the last __iter__ ("none" before)
    last,                \* what the last __getitem__ did and returned
    nreq,                \* number of __getitem__ requests served
    copies,              \* the dataset copies held by the loader's worker processes
    wlast                \* per worker: what its last __getitem__ did

vars == <<source, mode, cfg, pose_files, pc, pose_path, poses, count, lut, ranges,
          video_path, image_folders, gps_positions, image_names,
          video_reader_cache, opened, indices, yielded, last, nreq, copies, wlast>>

dsVars == <<pose_path, poses, count, lut, ranges, video_path, image_folders,
            gps_positions, image_names>>

wkVars == <<copies, wlast>>

(***************************************************************************)
(* Bounds of the model.                                                    *)
(***************************************************************************)
MaxRows == 5          \* rows (line pairs) of the longest raw log
MaxRequests == 2      \* __getitem__ requests per behaviour
MaxIters == 2         \* __iter__ calls on the sampler per behaviour
NumWorkers == 2       \* worker processes of the loader

(***************************************************************************)
(* Python built-ins.                                                       *)
(***************************************************************************)
Max(a, b) == IF a >= b THEN a ELSE b

Min(a, b) == IF a <= b THEN a ELSE b

\* s[a:b] for 0 <= a, 0 <= b (Python clamps both ends to len(s)).
Slice(s, a, b) ==
    LET lo == Min(a, Len(s))
        hi == Min(b, Len(s))
    IN  [i \in 1..Max(hi - lo, 0) |-> s[lo + i]]

\* s[::stride] for stride >= 1.
Stride(s, stride) ==
    [i \in 1..((Len(s) + stride - 1) \div stride) |-> s[(i - 1) * stride + 1]]

\* [s[i] for i in keep], keep a sequence of 0-based indices.
Select(s, keep) == [k \in 1..Len(keep) |-> s[keep[k] + 1]]

\* range(a, b) as a sequence.
Range(a, b) == [i \in 1..Max(b - a, 0) |-> a + i - 1]

\* np.argmin of a boolean array: the 0-based index of the first minimum, i.e. of
\* the first False if there is one, else 0.
ArgMin(flags) ==
    IF \E i \in 1..Len(flags) : ~flags[i]
    THEN (CHOOSE i \in 1..Len(flags) : ~flags[i] /\ \A j \in 1..(i - 1) : flags[j]) - 1
    ELSE 0

\* np.argmax of a boolean array: the 0-based index of the first True, else 0.
ArgMax(flags) ==
    IF \E i \in 1..Len(flags) : flags[i]
    THEN (CHOOSE i \in 1..Len(flags) : flags[i] /\ \A j \in 1..(i - 1) : ~flags[j]) - 1
    ELSE 0

RECURSIVE SumSeq(_)
SumSeq(s) == IF Len(s) = 0 THEN 0 ELSE s[1] + SumSeq(Tail(s))

(***************************************************************************)
(* Rigid-body geometry (pose_to_matrix, poses_to_matrices, np.linalg.inv,  *)
(* np.matmul).  A homogeneous 4x4 transform with bottom row [0,0,0,1] is   *)
(* kept as its rotation block rot and its translation column t.            *)
(***************************************************************************)
VAdd(a, b) == <<a[1] + b[1], a[2] + b[2], a[3] + b[3]>>

VSub(a, b) == <<a[1] - b[1], a[2] - b[2], a[3] - b[3]>>

Dot(a, b) == a[1] * b[1] + a[2] * b[2] + a[3] * b[3]

\* np.linalg.norm(a)^2
Norm2(a) == Dot(a, a)

MatVec(m, v) == <<Dot(m[1], v), Dot(m[2], v), Dot(m[3], v)>>

Transpose(m) == [r \in 1..3 |-> [c \in 1..3 |-> m[c][r]]]

MatMat(a, b) ==
    [r \in 1..3 |->
        [c \in 1..3 |-> a[r][1] * b[1][c] + a[r][2] * b[2][c] + a[r][3] * b[3][c]]]

\* Rotation.from_quat([x, y, z, w]).as_matrix() for a unit quaternion (scalar last).
QuatToMatrix(q) ==
    LET x == q[1]
        y == q[2]
        z == q[3]
        w == q[4]
        \* from_quat normalises: n is the squared norm (1 for a unit quaternion).
        n == x * x + y * y + z * z + w * w
    IN  << <<(n - 2 * (y * y + z * z)) \div n, (2 * (x * y - z * w)) \div n,
             (2 * (x * z + y * w)) \div n>>,
           <<(2 * (x * y + z * w)) \div n, (n - 2 * (x * x + z * z)) \div n,
             (2 * (y * z - x * w)) \div n>>,
           <<(2 * (x * z - y * w)) \div n, (2 * (y * z + x * w)) \div n,
             (n - 2 * (x * x + y * y)) \div n>> >>

\* pose_to_matrix: rotation from pose[3:], translation from pose[:3].
pose_to_matrix(pose) == [rot |-> QuatToMatrix(pose.quat), t |-> pose.pos]

\* poses_to_matrices: the same, row by row.
poses_to_matrices(ps) == [i \in 1..Len(ps) |-> pose_to_matrix(ps[i])]

\* np.linalg.inv of a rigid transform: [R^T, -R^T t].
MatInv(m) ==
    LET rt == Transpose(m.rot)
    IN  [rot |-> rt, t |-> VSub(<<0, 0, 0>>, MatVec(rt, m.t))]

\* np.matmul of two homogeneous transforms.
MatMul(a, b) == [rot |-> MatMat(a.rot, b.rot), t |-> VAdd(MatVec(a.rot, b.t), a.t)]

\* Mutant: the poses are multiplied by the current pose, not by its inverse.
transform_poses_NoInverse(ps, current_pose_array) ==
    LET current_pose_matrix == pose_to_matrix(current_pose_array)
        pose_matrices == poses_to_matrices(ps)
    IN  [i \in 1..Len(ps) |-> MatMul(current_pose_matrix, pose_matrices[i]).t]

\* transform_poses / transform_waypoints: positions of ps in the frame of current.
transform_poses(ps, current_pose_array) ==
    LET current_pose_inv == MatInv(pose_to_matrix(current_pose_array))
        pose_matrices == poses_to_matrices(ps)
    IN  [i \in 1..Len(ps) |-> MatMul(current_pose_inv, pose_matrices[i]).t]

\* transform_target_pose / transform_pose: one pose in the frame of current.
transform_target_pose(target_pose, current_pose_array) ==
    MatMul(MatInv(pose_to_matrix(current_pose_array)), pose_to_matrix(target_pose)).t

\* The column selection [:, [0, 2]] (video source) and [:, [0, 1]] (robot source).
ColsXZ(p) == <<p[1], p[3]>>

ColsXY(p) == <<p[1], p[2]>>

(***************************************************************************)
(* Raw inputs.  A video pose log is a list of rows <<timestamp, position,  *)
(* quaternion>>; nan marks a row with a NaN component.  Row r of log f     *)
(* stands at position (r, 0, f) (a walk along x, the logs told apart by    *)
(* z) and turns through the four integer unit quaternions.                 *)
(***************************************************************************)
\* Python's None where an integer may stand (the cached video_idx), the reader
\* slot before any VideoReader exists, and "no exception".
None == -1

NoReader == [path |-> 0, handle |-> 0]

NoExc == "none"

\* The sampler's index list before the sampler exists.
NoIndices == <<-1>>

Quats == << <<0, 0, 0, 1>>, <<0, 1, 0, 0>>, <<1, 0, 0, 0>>, <<0, 0, 1, 0>> >>

VideoRow(f, r, isnan) ==
    [t |-> r, pos |-> <<r, 0, f>>, quat |-> Quats[(r % 4) + 1], nan |-> isnan]

\* The pose log f with n rows, the rows a..b-1 holding NaN, beside a video of
\* num_frames frames (video_exists: whether the .mp4 is on disk).
VideoLog(f, n, a, b, frames, exists) ==
    [rows |-> [i \in 1..n |-> VideoRow(f, i - 1, a <= i - 1 /\ i - 1 < b)],
     num_frames |-> frames,
     media_exists |-> exists]

(***************************************************************************)
(* A robot log is a list of text lines, GPS line and pose line by turns.   *)
(* ntok is the number of comma-separated fields of the line; step names    *)
(* the time step the line was written at.  A pose line holds the           *)
(* quaternion scalar-first, then the translation, then the image name.     *)
(***************************************************************************)
GpsLine(f, k, ok) ==
    [ntok |-> IF ok THEN 8 ELSE 3, step |-> k, fix |-> <<f, k>>]

PoseLine(f, k, ok) ==
    [ntok |-> IF ok THEN 11 ELSE 5, step |-> k,
     qwxyz |-> <<Quats[(k % 4) + 1][4], Quats[(k % 4) + 1][1],
                 Quats[(k % 4) + 1][2], Quats[(k % 4) + 1][3]>>,
     txyz |-> <<k, f, 0>>,
     image |-> <<f, k>>]

\* The log f of n line pairs; pair bad (0-based, n for none) has a short GPS line
\* (kind "gps") or a short pose line (kind "pose"); dangling: a last GPS line
\* without its pose line.
RobotLog(f, n, bad, kind, dangling, exists) ==
    [lines |-> [i \in 1..(2 * n + (IF dangling THEN 1 ELSE 0)) |->
                   LET k == (i - 1) \div 2
                   IN  IF (i - 1) % 2 = 0
                       THEN GpsLine(f, k, ~(k = bad /\ kind = "gps"))
                       ELSE PoseLine(f, k, ~(k = bad /\ kind = "pose"))],
     media_exists |-> exists]

(***************************************************************************)
(* CityWalkDataset.__init__ (src/data/citywalk_dataset.py 32-103).         *)
(***************************************************************************)
\* The mode split of the sorted file list (both sources); "ValueError" for an
\* unknown mode.  The ids are 1-based positions in pose_files.
SplitPaths(src, m, c, n) ==
    LET ids == [i \in 1..n |-> i]
    IN  IF m = "train" THEN [exc |-> NoExc, ids |-> Slice(ids, 0, c.num_train)]
        ELSE IF m = "val"
        THEN [exc |-> NoExc, ids |-> Slice(ids, c.num_train, c.num_train + c.num_val)]
        ELSE IF m = "test" /\ src = "robot"
        THEN [exc |-> NoExc,
              ids |-> Slice(ids, c.num_train + c.num_val,
                            c.num_train + c.num_val + c.num_test)]
        ELSE [exc |-> "ValueError", ids |-> <<>>]

\* Lines 74-78: decimate, drop the timestamp column, truncate at NaN.
LoadPoses(rows, c) ==
    LET pose == Stride([i \in 1..Len(rows) |->
                           [pos |-> rows[i].pos, quat |-> rows[i].quat,
                            nan |-> rows[i].nan]],
                       Max(1, c.pose_fps \div c.target_fps))
        pose_nan == [i \in 1..Len(pose) |-> pose[i].nan]
    IN  IF \E i \in 1..Len(pose_nan) : pose_nan[i]
        THEN Slice(pose, 0, ArgMin(pose_nan))
        ELSE pose

\* Mutant: the search window is left out of the tail that must remain.
UsableCount_WaypointOnly(n, c) ==
    Max(n - c.context_size - c.wp_length, 0)

\* Lines 80-81 (and urbannav_dataset.py 131-132).
UsableCount(n, c) ==
    Max(n - c.context_size - Max(c.search_window, c.wp_length), 0)

\* Line 84: valid_indices, 0-based, in order.
RECURSIVE ValidFrom(_, _)
ValidFrom(cnt, i) ==
    IF i > Len(cnt) THEN <<>>
    ELSE (IF cnt[i] > 0 THEN <<i - 1>> ELSE <<>>) \o ValidFrom(cnt, i + 1)

ValidIndices(cnt) == ValidFrom(cnt, 1)

\* Mutant: idx_counter starts again at 0 for every sequence.
RECURSIVE BuildLookup_Restart(_, _, _, _)
BuildLookup_Restart(cnt, i, lutAcc, rangesAcc) ==
    IF i > Len(cnt) THEN [lut |-> lutAcc, ranges |-> rangesAcc]
    ELSE LET entries == [p \in 1..cnt[i] |-> <<i - 1, p - 1>>]
         IN  BuildLookup_Restart(cnt, i + 1, lutAcc \o entries,
                                 Append(rangesAcc, <<0, Len(entries)>>))

\* Lines 90-99: the look-up table and the per-sequence ranges.
RECURSIVE BuildLookup(_, _, _, _)
BuildLookup(cnt, i, lutAcc, rangesAcc) ==
    IF i > Len(cnt) THEN [lut |-> lutAcc, ranges |-> rangesAcc]
    ELSE LET start_idx == Len(lutAcc)
             entries == [p \in 1..cnt[i] |-> <<i - 1, p - 1>>]
             end_idx == start_idx + Len(entries)
         IN  BuildLookup(cnt, i + 1, lutAcc \o entries,
                         Append(rangesAcc, <<start_idx, end_idx>>))

EmptyCache == [video_idx |-> None, video_reader |-> NoReader]

NoSample == [result |-> "none"]

\* The constructor: the fields of the new object, or the exception raised.
CityWalkConstruct(files, m, c) ==
    LET split == SplitPaths("video", m, c, Len(files))
        paths == split.ids
    IN  IF split.exc # NoExc THEN [exc |-> split.exc]
        ELSE IF \E k \in 1..Len(paths) : ~files[paths[k]].media_exists
        THEN [exc |-> "FileNotFoundError"]
        \* np.loadtxt squeezes a log of fewer than two rows to one dimension,
        \* which the two-axis index of line 74 rejects.
        ELSE IF \E k \in 1..Len(paths) : Len(files[paths[k]].rows) < 2
        THEN [exc |-> "IndexError"]
        ELSE LET all_poses == [k \in 1..Len(paths) |-> LoadPoses(files[paths[k]].rows, c)]
                 all_count == [k \in 1..Len(paths) |-> UsableCount(Len(all_poses[k]), c)]
                 valid_indices == ValidIndices(all_count)
                 cnt == Select(all_count, valid_indices)
                 built == BuildLookup(cnt, 1, <<>>, <<>>)
             IN  IF Len(built.lut) = 0 THEN [exc |-> "AssertionError"]
                 ELSE [exc |-> NoExc,
                       pose_path |-> paths,
                       poses |-> Select(all_poses, valid_indices),
                       video_path |-> Select(paths, valid_indices),
                       count |-> cnt,
                       lut |-> built.lut,
                       ranges |-> built.ranges]

CityWalkInit ==
    /\ pc = "new"
    /\ source = "video"
    /\ LET obj == CityWalkConstruct(pose_files, mode, cfg)
       IN  IF obj.exc # NoExc
           THEN /\ pc' = obj.exc
                /\ UNCHANGED <<dsVars, video_reader_cache>>
           ELSE /\ pc' = "ready"
                /\ pose_path' = obj.pose_path
                /\ poses' = obj.poses
                /\ video_path' = obj.video_path
                /\ count' = obj.count
                /\ lut' = obj.lut
                /\ ranges' = obj.ranges
                /\ video_reader_cache' = EmptyCache
                /\ UNCHANGED <<image_folders, gps_positions, image_names>>
    /\ UNCHANGED <<wkVars, source, mode, cfg, pose_files, opened, indices, yielded, last, nreq>>

(***************************************************************************)
(* UrbanNavDataset.__init__ (src/data/urbannav_dataset.py 12-154).         *)
(***************************************************************************)
\* latlon_to_local and line 107: the local ENU position of a fix relative to the
\* reference fix, kept as the term enu(fix, ref).
latlon_to_local(fix, ref) == [fix |-> fix, ref |-> ref]

\* ref_lat, ref_lon, ref_alt before the first fix (line 72).
NoFix == <<0, -1>>

\* Lines 115-123: the pose [tx, ty, tz, qx, qy, qz, qw] of a pose line.
PoseOfLine(line) ==
    [pos |-> line.txyz,
     quat |-> <<line.qwxyz[2], line.qwxyz[3], line.qwxyz[4], line.qwxyz[1]>>]

\* Lines 74-125: the loop over the line pairs, i the 0-based index of the GPS
\* line.  acc holds gps_positions, poses, images and the reference fix.
RECURSIVE ParsePairs(_, _, _)
ParsePairs(lines, i, acc) ==
    IF i >= Len(lines) THEN acc
    ELSE IF i + 1 >= Len(lines) THEN [acc EXCEPT !.exc = "IndexError"]
    ELSE LET gps_line == lines[i + 1]
             pose_line == lines[i + 2]
         IN  IF gps_line.ntok < 8 THEN ParsePairs(lines, i + 2, acc)
             ELSE LET ref == IF acc.ref = NoFix THEN gps_line.fix ELSE acc.ref
                      withGps == [acc EXCEPT
                                     !.ref = ref,
                                     !.gps = Append(@, latlon_to_local(gps_line.fix, ref))]
                  IN  IF pose_line.ntok < 11 THEN ParsePairs(lines, i + 2, withGps)
                      ELSE ParsePairs(lines, i + 2,
                               [withGps EXCEPT
                                   !.poses = Append(@, PoseOfLine(pose_line)),
                                   !.images = Append(@, pose_line.image)])

ParseLog(lines) ==
    ParsePairs(lines, 0, [exc |-> NoExc, ref |-> NoFix, gps |-> <<>>,
                          poses |-> <<>>, images |-> <<>>])

\* Lines 57-135: the loop over the files of the split, k the 1-based position in
\* paths.  acc holds the five lists of the object.
RECURSIVE LoadLogs(_, _, _, _, _)
LoadLogs(files, paths, c, k, acc) ==
    IF k > Len(paths) THEN acc
    ELSE IF ~files[paths[k]].media_exists THEN [acc EXCEPT !.exc = "FileNotFoundError"]
    ELSE LET withFolder == [acc EXCEPT !.image_folders = Append(@, paths[k])]
             log == ParseLog(files[paths[k]].lines)
         IN  IF log.exc # NoExc THEN [acc EXCEPT !.exc = log.exc]
             ELSE IF Len(log.poses) = 0 \/ Len(log.gps) = 0
             THEN LoadLogs(files, paths, c, k + 1, withFolder)
             ELSE LoadLogs(files, paths, c, k + 1,
                      [withFolder EXCEPT
                          !.count = Append(@, UsableCount(Len(log.poses), c)),
                          !.gps_positions = Append(@, log.gps),
                          !.poses = Append(@, log.poses),
                          !.image_names = Append(@, log.images)])

UrbanNavConstruct(files, m, c) ==
    LET split == SplitPaths("robot", m, c, Len(files))
        paths == split.ids
    IN  IF split.exc # NoExc THEN [exc |-> split.exc]
        ELSE LET loaded == LoadLogs(files, paths, c, 1,
                               [exc |-> NoExc, count |-> <<>>, gps_positions |-> <<>>,
                                poses |-> <<>>, image_names |-> <<>>,
                                image_folders |-> <<>>])
                 valid_indices == ValidIndices(loaded.count)
                 cnt == Select(loaded.count, valid_indices)
                 built == BuildLookup(cnt, 1, <<>>, <<>>)
             IN  IF loaded.exc # NoExc THEN [exc |-> loaded.exc]
                 ELSE IF Len(built.lut) = 0 THEN [exc |-> "AssertionError"]
                 ELSE [exc |-> NoExc,
                       pose_path |-> paths,
                       gps_positions |-> Select(loaded.gps_positions, valid_indices),
                       poses |-> Select(loaded.poses, valid_indices),
                       image_names |-> Select(loaded.image_names, valid_indices),
                       image_folders |-> Select(loaded.image_folders, valid_indices),
                       count |-> cnt,
                       lut |-> built.lut,
                       ranges |-> built.ranges]

UrbanNavInit ==
    /\ pc = "new"
    /\ source = "robot"
    /\ LET obj == UrbanNavConstruct(pose_files, mode, cfg)
       IN  IF obj.exc # NoExc
           THEN /\ pc' = obj.exc
                /\ UNCHANGED dsVars
           ELSE /\ pc' = "ready"
                /\ pose_path' = obj.pose_path
                /\ gps_positions' = obj.gps_positions
                /\ poses' = obj.poses
                /\ image_names' = obj.image_names
                /\ image_folders' = obj.image_folders
                /\ count' = obj.count
                /\ lut' = obj.lut
                /\ ranges' = obj.ranges
                /\ UNCHANGED video_path
    /\ UNCHANGED <<wkVars, source, mode, cfg, pose_files, video_reader_cache, opened,
                   indices, yielded, last, nreq>>

(***************************************************************************)
(* CityWalkSampler (src/data/citywalk_dataset.py 11-29).                   *)
(***************************************************************************)
\* Every order random.shuffle can leave a list in.
Perms(s) ==
    {p \in [1..Len(s) -> {s[i] : i \in 1..Len(s)}] :
        \A v \in {s[i] : i \in 1..Len(s)} : \E k \in 1..Len(s) : p[k] = v}

\* Mutant: the range is shuffled whatever the mode.
RangeOrders_AlwaysShuffle(rng, m) == Perms(Range(rng[1], rng[2]))

\* The orders of one range: shuffled in train mode, ascending otherwise.
RangeOrders(rng, m) ==
    LET video_indices == Range(rng[1], rng[2])
    IN  IF m = "train" THEN Perms(video_indices) ELSE {video_indices}

\* create_indices: the lists the loop over video_ranges can build from range i on.
RECURSIVE create_indices(_, _, _)
create_indices(rngs, m, i) ==
    IF i > Len(rngs) THEN {<<>>}
    ELSE {p \o rest : p \in RangeOrders(rngs[i], m), rest \in create_indices(rngs, m, i + 1)}

\* CityWalkSampler.__init__
SamplerInit ==
    /\ pc = "ready"
    /\ source = "video"
    /\ indices = NoIndices
    /\ indices' \in create_indices(ranges, mode, 1)
    /\ UNCHANGED <<wkVars, source, mode, cfg, pose_files, pc, dsVars, video_reader_cache,
                   opened, yielded, last, nreq>>

\* CityWalkSampler.__iter__, run to exhaustion: the order it yields.
SamplerIter ==
    /\ indices # NoIndices
    /\ Len(yielded) < MaxIters
    /\ yielded' = Append(yielded, indices)
    /\ UNCHANGED <<wkVars, source, mode, cfg, pose_files, pc, dsVars, video_reader_cache,
                   opened, indices, last, nreq>>

(***************************************************************************)
(* CityWalkDataset.__getitem__ (src/data/citywalk_dataset.py 108-216).     *)
(***************************************************************************)
\* The draws np.random.normal can make for one row (never exactly zero).
NoiseVals == {<<1, 0, 0>>, <<0, 1, -1>>}

\* Mutant: noise is added for a sigma of zero too.
NoiseApplied_AtZero(c) == c.input_noise >= 0

\* Line 149: add_noise is called only for a positive sigma.
NoiseApplied(c) == c.input_noise > 0

\* The noise arrays a request can draw: one vector per input row if noise is
\* applied; add_noise is not called otherwise.
NoiseDraws(c) ==
    IF NoiseApplied(c) THEN [1..c.context_size -> NoiseVals]
    ELSE {[k \in 1..c.context_size |-> <<0, 0, 0>>]}

\* get_input_and_future_poses: the 0-based index bounds of the two slices.
SearchEnd(pose, pose_start, c) ==
    Min(pose_start + c.context_size + c.search_window, Len(pose))

FuturePoses(pose, pose_start, c) ==
    Slice(pose, pose_start + c.context_size, SearchEnd(pose, pose_start, c))

InputPoses(pose, pose_start, c) ==
    Slice(pose, pose_start, pose_start + c.context_size)

\* Mutant: the waypoint slice starts one pose late.
extract_waypoints_Late(pose, pose_start, c) ==
    Slice(pose, pose_start + c.context_size + 1,
          pose_start + c.context_size + 1 + c.wp_length)

\* extract_waypoints
extract_waypoints(pose, pose_start, c) ==
    Slice(pose, pose_start + c.context_size, pose_start + c.context_size + c.wp_length)

\* determine_arrived_label: norm(target - current) <= arrived_threshold.
determine_arrived_label(current_pos, target_pos, c) ==
    /\ c.arrived_threshold >= 0
    /\ Norm2(VSub(target_pos, current_pos)) <= c.arrived_threshold * c.arrived_threshold

\* add_noise: input_poses[:, :3] += noise.  input_poses is a view of the stored
\* array, so the rows pose_start .. pose_start + context_size - 1 of the stored
\* array are the ones written.
add_noise(pose, pose_start, c, noise) ==
    [i \in 1..Len(pose) |->
        IF pose_start < i /\ i <= pose_start + Len(noise)
        THEN [pose[i] EXCEPT !.pos = VAdd(@, noise[i - pose_start])]
        ELSE pose[i]]

\* Mutant: a reader is opened on every request.
CacheLookup_AlwaysOpen(cache, video_idx, paths, nopened) ==
    [cache |-> [video_idx |-> video_idx,
                video_reader |-> [path |-> paths[video_idx + 1],
                                  handle |-> nopened + 1]],
     opened |-> nopened + 1]

\* Lines 112-115: the cache after the look-up for video_idx, and the number of
\* VideoReader objects created so far (handle tells the objects apart).
CacheLookup(cache, video_idx, paths, nopened) ==
    IF cache.video_idx # video_idx
    THEN [cache |-> [video_idx |-> video_idx,
                     video_reader |-> [path |-> paths[video_idx + 1],
                                       handle |-> nopened + 1]],
          opened |-> nopened + 1]
    ELSE [cache |-> cache, opened |-> nopened]

\* Mutant: the frame indices are not clamped to the video length.
FrameIndices_Unclamped(pose_start, c, num_frames) ==
    [k \in 1..c.context_size |->
        pose_start * (c.video_fps \div c.target_fps)
            + (k - 1) * (c.video_fps \div c.target_fps)]

\* Lines 118-124: the frame indices handed to get_batch.
FrameIndices(pose_start, c, num_frames) ==
    LET frame_multiplier == c.video_fps \div c.target_fps
        start_frame_idx == pose_start * frame_multiplier
    IN  [k \in 1..c.context_size |->
            Min(start_frame_idx + (k - 1) * frame_multiplier, num_frames - 1)]

\* Lines 132-179 for one entry of the look-up table, one draw of the target and
\* one draw of the noise: the stored array after the request and the sample.
CityWalkSample(pose, pose_start, c, m, target_idx, noise) ==
    LET input_before == InputPoses(pose, pose_start, c)
        original_input_poses == input_before
        future_poses == FuturePoses(pose, pose_start, c)
        target_pose == future_poses[target_idx + 1]
        arrived == determine_arrived_label(input_before[Len(input_before)].pos,
                                           target_pose.pos, c)
        waypoint_poses == extract_waypoints(pose, pose_start, c)
        stored == IF NoiseApplied(c) THEN add_noise(pose, pose_start, c, noise)
                  ELSE pose
        input_poses == InputPoses(stored, pose_start, c)
        current_pose == input_poses[Len(input_poses)]
        transformed_input_positions == transform_poses(input_poses, current_pose)
        transformed_original_input_positions ==
            transform_poses(original_input_poses, current_pose)
        waypoints_transformed == transform_poses(waypoint_poses, current_pose)
        target_transformed == transform_target_pose(target_pose, current_pose)
        input_positions ==
            [i \in 1..Len(input_poses) |-> ColsXZ(transformed_input_positions[i])]
        waypoints ==
            [i \in 1..Len(waypoint_poses) |-> ColsXZ(waypoints_transformed[i])]
        base == [input_positions |-> input_positions,
                 waypoints |-> waypoints,
                 arrived |-> IF arrived THEN 1 ELSE 0]
        extras == [original_input_positions |->
                       [i \in 1..Len(original_input_poses) |->
                           ColsXZ(transformed_original_input_positions[i])],
                   noisy_input_positions |-> input_positions,
                   gt_waypoints |-> waypoints,
                   target_transformed |-> ColsXZ(target_transformed)]
    IN  [stored |-> stored,
         used |-> [input_poses |-> input_before,
                   waypoint_poses |-> waypoint_poses,
                   target_pose |-> target_pose],
         sample |-> IF m = "val" THEN base @@ extras ELSE base]

CityWalkGetItem ==
    /\ pc = "ready"
    /\ source = "video"
    /\ nreq < MaxRequests
    /\ \E index \in 0..(Len(lut) - 1) :
         LET video_idx == lut[index + 1][1]
             pose_start == lut[index + 1][2]
             looked == CacheLookup(video_reader_cache, video_idx, video_path, opened)
             cache == looked.cache
             video_reader == cache.video_reader
             frame_indices == FrameIndices(pose_start, cfg,
                                           pose_files[video_reader.path].num_frames)
             pose == poses[video_idx + 1]
             future_poses == FuturePoses(pose, pose_start, cfg)
             trace == [index |-> index, video_idx |-> video_idx,
                       pose_start |-> pose_start,
                       video_reader |-> video_reader,
                       frame_indices |-> frame_indices,
                       before |-> poses]
         IN  /\ video_reader_cache' = cache
             /\ opened' = looked.opened
             /\ IF Len(future_poses) = 0
                THEN /\ last' = trace @@ [result |-> "IndexError"]
                     /\ poses' = poses
                ELSE \E target_idx \in 0..(Len(future_poses) - 1) :
                     \E noise \in NoiseDraws(cfg) :
                        LET out == CityWalkSample(pose, pose_start, cfg, mode,
                                                  target_idx, noise)
                        IN  /\ poses' = [poses EXCEPT ![video_idx + 1] = out.stored]
                            /\ last' = trace @@
                                 [result |-> "sample",
                                  target_idx |-> target_idx,
                                  noise |-> noise,
                                  used |-> out.used,
                                  sample |-> out.sample @@
                                     [video_frames |->
                                        [reader |-> video_reader,
                                         frames |-> frame_indices]]]
    /\ nreq' = nreq + 1
    /\ UNCHANGED <<wkVars, source, mode, cfg, pose_files, pc, pose_path, count, lut, ranges,
                   video_path, image_folders, gps_positions, image_names,
                   indices, yielded>>

(***************************************************************************)
(* UrbanNavDataset.__getitem__ (src/data/urbannav_dataset.py 159-247).     *)
(***************************************************************************)
\* random.randint(a, b): the values it can return; none (ValueError) if a > b.
RandInt(a, b) == a..b

\* Mutant: the arrival threshold is left out of the not-arrived range.
select_target_index_NoThreshold(future_positions, c, arrived) ==
    LET max_idx == Len(future_positions) - 1
    IN  IF arrived
        THEN RandInt(c.wp_length, Min(c.wp_length + c.arrived_threshold, max_idx))
        ELSE RandInt(c.wp_length, max_idx)

\* select_target_index: the target indices the draw arrived allows.
select_target_index(future_positions, c, arrived) ==
    LET max_idx == Len(future_positions) - 1
    IN  IF arrived
        THEN RandInt(c.wp_length, Min(c.wp_length + c.arrived_threshold, max_idx))
        ELSE RandInt(c.wp_length + c.arrived_threshold, max_idx)

\* input2target followed by [:, [0, 1]] and, in train mode, the random rotation:
\* the term enu(fix) - enu(target), rotated or not.
input2target(input_positions, target_position, m) ==
    [i \in 1..Len(input_positions) |->
        [of |-> input_positions[i], minus |-> target_position,
         rotated |-> (m = "train")]]

\* Mutant: the visualization fields are left out in test mode.
VisualizationMode_ValOnly(m) == m = "val"

\* Line 221: the modes whose samples carry the visualization fields.
VisualizationMode(m) == m \in {"val", "test"}

\* Lines 161-234 for one entry of the look-up table, one arrival draw and one
\* target draw.
UrbanNavSample(gps, pose, images, image_folder, pose_start, c, m, arrived, target_idx) ==
    LET input_gps_positions == Slice(gps, pose_start, pose_start + c.context_size)
        future_gps_positions ==
            Slice(gps, pose_start + c.context_size,
                  pose_start + c.context_size + c.search_window)
        target_gps_position == future_gps_positions[target_idx + 1]
        input_positions == input2target(input_gps_positions, target_gps_position, m)
        input_image_names == Slice(images, pose_start, pose_start + c.context_size)
        input_poses == Slice(pose, pose_start, pose_start + c.context_size)
        gt_waypoint_poses == extract_waypoints(pose, pose_start, c)
        current_pose == input_poses[Len(input_poses)]
        history_positions == transform_poses(input_poses, current_pose)
        gt_waypoints == transform_poses(gt_waypoint_poses, current_pose)
        target_pose == pose[pose_start + c.context_size + target_idx + 1]
        target_transformed == transform_target_pose(target_pose, current_pose)
        waypoints == [i \in 1..Len(gt_waypoints) |-> ColsXY(gt_waypoints[i])]
        history == [i \in 1..Len(history_positions) |-> ColsXY(history_positions[i])]
        base == [video_frames |-> [folder |-> image_folder, names |-> input_image_names],
                 input_positions |-> input_positions,
                 waypoints |-> waypoints,
                 arrived |-> IF arrived THEN 1 ELSE 0]
        extras == [original_input_positions |-> history,
                   noisy_input_positions |-> history,
                   gt_waypoints |-> waypoints,
                   target_transformed |-> ColsXY(target_transformed)]
    IN  [used |-> [input_gps_positions |-> input_gps_positions,
                   target_gps_position |-> target_gps_position,
                   input_image_names |-> input_image_names,
                   input_poses |-> input_poses,
                   waypoint_poses |-> gt_waypoint_poses,
                   target_pose |-> target_pose],
         sample |-> IF VisualizationMode(m) THEN base @@ extras ELSE base]

UrbanNavGetItem ==
    /\ pc = "ready"
    /\ source = "robot"
    /\ nreq < MaxRequests
    /\ \E index \in 0..(Len(lut) - 1), arrived \in BOOLEAN :
         LET sequence_idx == lut[index + 1][1]
             pose_start == lut[index + 1][2]
             gps == gps_positions[sequence_idx + 1]
             pose == poses[sequence_idx + 1]
             future_gps_positions ==
                 Slice(gps, pose_start + cfg.context_size,
                       pose_start + cfg.context_size + cfg.search_window)
             targets == select_target_index(future_gps_positions, cfg, arrived)
             trace == [index |-> index, sequence_idx |-> sequence_idx,
                       pose_start |-> pose_start, drawn |-> arrived]
         IN  IF Len(future_gps_positions) = 0
             THEN last' = trace @@ [result |-> "IndexError"]
             ELSE IF targets = {}
             THEN last' = trace @@ [result |-> "ValueError"]
             ELSE \E target_idx \in targets :
                    IF pose_start + cfg.context_size + target_idx >= Len(pose)
                    THEN last' = trace @@ [result |-> "IndexError",
                                           target_idx |-> target_idx]
                    ELSE LET out == UrbanNavSample(gps, pose,
                                        image_names[sequence_idx + 1],
                                        image_folders[sequence_idx + 1],
                                        pose_start, cfg, mode, arrived, target_idx)
                         IN  last' = trace @@
                               [result |-> "sample",
                                target_idx |-> target_idx,
                                max_idx |-> Len(future_gps_positions) - 1,
                                used |-> out.used,
                                sample |-> out.sample]
    /\ nreq' = nreq + 1
    /\ UNCHANGED <<wkVars, source, mode, cfg, pose_files, pc, dsVars, video_reader_cache,
                   opened, indices, yielded>>

(***************************************************************************)
(* Worker processes of the data loader.  The loader lives in                *)
(* pl_modules/citywalk_datamodule.py; what it does with the dataset is      *)
(* taken from section 5 of the specification: every worker process receives *)
(* a clone of the constructed dataset and serves requests on its clone.     *)
(***************************************************************************)
\* Mutant: the workers serve their requests on one dataset object.
CopyOf_Shared(w) == 1

\* The dataset copy worker w serves its requests on: its own clone.
CopyOf(w) == w

NoWork == [n |-> 0]

\* The loader starts its workers: each clone holds the state of the
\* constructed dataset, its cache slot empty (line 103).
StartWorkers ==
    /\ pc = "ready"
    /\ source = "video"
    /\ nreq = 0
    /\ pc' = "workers"
    /\ copies' = [k \in 1..NumWorkers |->
                     [video_reader_cache |-> video_reader_cache,
                      opened |-> opened,
                      opener |-> 0,
                      poses |-> poses]]
    /\ wlast' = [w \in 1..NumWorkers |-> NoWork]
    /\ UNCHANGED <<source, mode, cfg, pose_files, dsVars, video_reader_cache, opened,
                   indices, yielded, last, nreq>>

\* Worker w runs CityWalkDataset.__getitem__ (lines 108-179) on its copy.
WorkerGetItem(w) ==
    /\ pc = "workers"
    /\ SumSeq([v \in 1..NumWorkers |-> wlast[v].n]) <= MaxRequests
    /\ wlast[w].n < MaxRequests
    /\ \E index \in 0..(Len(lut) - 1) :
         LET k == CopyOf(w)
             self == copies[k]
             video_idx == lut[index + 1][1]
             pose_start == lut[index + 1][2]
             looked == CacheLookup(self.video_reader_cache, video_idx, video_path,
                                   self.opened)
             video_reader == looked.cache.video_reader
             opener == IF looked.opened # self.opened THEN w ELSE self.opener
             pose == self.poses[video_idx + 1]
             future_poses == FuturePoses(pose, pose_start, cfg)
             trace == [n |-> wlast[w].n + 1, index |-> index, video_idx |-> video_idx,
                       video_reader |-> video_reader, opener |-> opener]
         IN  IF Len(future_poses) = 0
             THEN /\ copies' = [copies EXCEPT ![k] =
                                  [@ EXCEPT !.video_reader_cache = looked.cache,
                                            !.opened = looked.opened,
                                            !.opener = opener]]
                  /\ wlast' = [wlast EXCEPT ![w] = trace @@ [result |-> "IndexError"]]
             ELSE \E target_idx \in 0..(Len(future_poses) - 1) :
                  \E noise \in NoiseDraws(cfg) :
                     LET out == CityWalkSample(pose, pose_start, cfg, mode,
                                               target_idx, noise)
                     IN  /\ copies' = [copies EXCEPT ![k] =
                                         [video_reader_cache |-> looked.cache,
                                          opened |-> looked.opened,
                                          opener |-> opener,
                                          poses |-> [self.poses EXCEPT
                                                        ![video_idx + 1] = out.stored]]]
                         /\ wlast' = [wlast EXCEPT ![w] =
                                         trace @@ [result |-> "sample",
                                                   sample |-> out.sample]]
    /\ UNCHANGED <<source, mode, cfg, pose_files, pc, dsVars, video_reader_cache,
                   opened, indices, yielded, last, nreq>>

(***************************************************************************)
(* Inputs and specifications.                                              *)
(***************************************************************************)
\* The window sizes and thresholds a configuration is drawn from.
ContextSizes == {1, 2}

WpLengths == {1, 2}

SearchWindows == {0, 1, 2, 3}

ArrivedThresholds == {0, 1}

\* (mode, num_train, num_val, num_test): the splits of a directory of two logs.
Splits == {<<"train", 2, 0, 0>>, <<"val", 0, 2, 0>>, <<"val", 1, 1, 0>>,
           <<"test", 0, 0, 2>>}

Config(ctx, wp, sw, thr, noise, pfps, vfps, split) ==
    [context_size |-> ctx, wp_length |-> wp, search_window |-> sw,
     arrived_threshold |-> thr, input_noise |-> noise,
     pose_fps |-> pfps, target_fps |-> 1, video_fps |-> vfps,
     num_train |-> split[2], num_val |-> split[3], num_test |-> split[4]]

\* Logs for the request specification.  The first log is long and NaN-free, or
\* holds NaN from row 2 on; the second is NaN-free, short or long.  The video is
\* shorter than the pose log.
RequestVideoLogs(f) ==
    IF f = 1
    THEN {VideoLog(f, MaxRows + 1, a, MaxRows + 1, MaxRows - 1, TRUE) :
             a \in {2, MaxRows + 1}}
    ELSE {VideoLog(f, n, n, n, MaxRows - 1, TRUE) : n \in {MaxRows - 1, MaxRows}}

\* The first log is long, whole or with one short pose line; the second is
\* whole, short or long.
RequestRobotLogs(f) ==
    IF f = 1
    THEN {RobotLog(f, MaxRows + 1, bad, "pose", FALSE, TRUE) : bad \in {1, MaxRows + 1}}
    ELSE {RobotLog(f, n, n, "pose", FALSE, TRUE) : n \in {MaxRows - 1, MaxRows + 1}}

\* The state before the constructor runs.
Blank ==
    /\ pc = "new"
    /\ pose_path = <<>>
    /\ poses = <<>>
    /\ count = <<>>
    /\ lut = <<>>
    /\ ranges = <<>>
    /\ video_path = <<>>
    /\ image_folders = <<>>
    /\ gps_positions = <<>>
    /\ image_names = <<>>
    /\ video_reader_cache = EmptyCache
    /\ opened = 0
    /\ indices = NoIndices
    /\ yielded = <<>>
    /\ last = NoSample
    /\ nreq = 0
    /\ copies = <<>>
    /\ wlast = <<>>

\* The request specification: construction, then __getitem__ requests.
Init ==
    /\ \/ \E f1 \in RequestVideoLogs(1), f2 \in RequestVideoLogs(2),
             ctx \in ContextSizes, wp \in WpLengths, sw \in SearchWindows,
             noise \in {-1, 0, 1}, split \in Splits :
             /\ source = "video"
             /\ mode = split[1]
             /\ pose_files = <<f1, f2>>
             /\ cfg = Config(ctx, wp, sw, 1, noise, 1, 2, split)
       \/ \E f1 \in RequestRobotLogs(1), f2 \in RequestRobotLogs(2),
             ctx \in ContextSizes, wp \in WpLengths, sw \in SearchWindows,
             thr \in ArrivedThresholds, split \in Splits :
             /\ source = "robot"
             /\ mode = split[1]
             /\ pose_files = <<f1, f2>>
             /\ cfg = Config(ctx, wp, sw, thr, 0, 1, 1, split)
    /\ Blank

Next ==
    \/ CityWalkInit
    \/ UrbanNavInit
    \/ CityWalkGetItem
    \/ UrbanNavGetItem

Spec == Init /\ [][Next]_vars

\* Logs for the construction specification: every length up to MaxRows, the NaN
\* rows an interval a..b-1 anywhere in the log, and one log without its video.
BuildVideoLogs(f) ==
    {VideoLog(f, n, a, a + w, n, TRUE) :
        n \in 1..MaxRows, a \in 0..(MaxRows - 1), w \in {0, 1, MaxRows}}
    \cup {VideoLog(f, MaxRows, 0, 0, MaxRows, FALSE)}

\* Every number of line pairs up to MaxRows, at most one short line, or a last
\* GPS line without its pose line, and one log without its image folder.
BuildRobotLogs(f) ==
    {RobotLog(f, n, bad, kind, FALSE, TRUE) :
        n \in 0..MaxRows, bad \in 0..MaxRows, kind \in {"gps", "pose"}}
    \cup {RobotLog(f, n, n, "gps", TRUE, TRUE) : n \in {0, MaxRows}}
    \cup {RobotLog(f, MaxRows, MaxRows, "gps", FALSE, FALSE)}

BuildSplits == {<<"train", 2, 0, 0>>, <<"val", 0, 2, 0>>, <<"val", 1, 1, 0>>,
                <<"test", 0, 0, 2>>, <<"eval", 1, 1, 0>>}

\* The construction specification: construction, then the sampler.
InitBuild ==
    /\ \/ \E f1 \in BuildVideoLogs(1), f2 \in BuildVideoLogs(2),
             wp \in WpLengths, sw \in {0, 2}, pfps \in {1, 2}, split \in BuildSplits :
             /\ source = "video"
             /\ mode = split[1]
             /\ pose_files = <<f1, f2>>
             /\ cfg = Config(1, wp, sw, 1, 0, pfps, 1, split)
       \/ \E f1 \in BuildRobotLogs(1), f2 \in BuildRobotLogs(2),
             wp \in WpLengths, sw \in {0, 2}, split \in BuildSplits :
             /\ source = "robot"
             /\ mode = split[1]
             /\ pose_files = <<f1, f2>>
             /\ cfg = Config(1, wp, sw, 1, 0, 1, 1, split)
    /\ Blank

NextBuild ==
    \/ CityWalkInit
    \/ UrbanNavInit
    \/ SamplerInit
    \/ SamplerIter

SpecBuild == InitBuild /\ [][NextBuild]_vars

\* The worker specification: construction of a video dataset, then requests
\* served by the loader's workers in any interleaving.
InitWorkers ==
    /\ \E n \in {MaxRows - 2, MaxRows - 1}, noise \in {0, 1} :
          /\ source = "video"
          /\ mode = "train"
          /\ pose_files = <<VideoLog(1, MaxRows - 2, MaxRows - 2, MaxRows - 2,
                                     MaxRows - 2, TRUE),
                            VideoLog(2, n, n, n, MaxRows - 2, TRUE)>>
          /\ cfg = Config(1, 1, 1, 1, noise, 1, 2, <<"train", 2, 0, 0>>)
    /\ Blank

NextWorkers ==
    \/ CityWalkInit
    \/ StartWorkers
    \/ \E w \in 1..NumWorkers : WorkerGetItem(w)

SpecWorkers == InitWorkers /\ [][NextWorkers]_vars

\* The quaternions of the 24 rotations that map the axes onto the axes, both
\* signs, unit or not (from_quat normalises them), and a few positions.
PoseQuats ==
    {q \in [1..4 -> {-1, 0, 1}] :
        q[1] * q[1] + q[2] * q[2] + q[3] * q[3] + q[4] * q[4] \in {1, 2, 4}}

PoseCoords == {-1, 0, 2}

\* The pose specification: a window of two poses, then the egocentric
\* transforms of the window and of its last pose.
InitPose ==
    /\ \E q \in PoseQuats, x \in PoseCoords, y \in PoseCoords, z \in PoseCoords,
          other \in {1, 2} :
          pose_files = << [pos |-> <<other, x, 0>>, quat |-> Quats[other]],
                          [pos |-> <<x, y, z>>, quat |-> q] >>
    /\ source = "pose"
    /\ mode = "none"
    /\ cfg = [context_size |-> 2]
    /\ Blank

\* Lines 153-154 / 232-238 on the window: the reference is its last pose.
ToEgocentric ==
    /\ source = "pose"
    /\ pc = "new"
    /\ pc' = "transformed"
    /\ LET input_poses == pose_files
           current_pose == input_poses[Len(input_poses)]
       IN  last' = [result |-> "transformed",
                    current_pose |-> current_pose,
                    input_positions |-> transform_poses(input_poses, current_pose),
                    own |-> transform_poses(<<current_pose>>, current_pose),
                    target |-> transform_target_pose(current_pose, current_pose)]
    /\ UNCHANGED <<wkVars, source, mode, cfg, pose_files, dsVars, video_reader_cache,
                   opened, indices, yielded, nreq>>

NextPose == ToEgocentric

SpecPose == InitPose /\ [][NextPose]_vars

(***************************************************************************)
(* Claims.                                                                 *)
(***************************************************************************)
Constructed == pc = "ready"

\* The log a retained sequence was loaded from, read off its first pose.
SeqFile(i) == IF source = "video" THEN poses[i][1].pos[3] ELSE poses[i][1].pos[2]

\* C1: after construction (either source) every retained sequence has
\* usableCount = max(0, numPoses - contextSize - max(searchWindow, waypointLength)),
\* numPoses the number of poses kept, and the look-up table holds no entry of a
\* sequence whose usableCount is 0.
C1_UsableCount ==
    Constructed =>
        /\ Len(count) = Len(poses)
        /\ \A i \in 1..Len(count) :
              LET tail == IF cfg.search_window >= cfg.wp_length
                          THEN cfg.search_window ELSE cfg.wp_length
                  usable == Len(poses[i]) - cfg.context_size - tail
              IN  count[i] = (IF usable > 0 THEN usable ELSE 0)
        /\ \A k \in 1..Len(lut) :
              /\ lut[k][1] + 1 \in 1..Len(count)
              /\ count[lut[k][1] + 1] > 0

\* C1 witness: a robot dataset that kept one of its two logs, with two samples.
C1_Witness ==
    /\ Constructed
    /\ source = "robot"
    /\ Len(pose_path) = 2
    /\ Len(count) = 1
    /\ count[1] = 2
    /\ cfg.search_window > cfg.wp_length

\* C2: the look-up table lists, sequence by sequence in original order, the
\* entries (i, 0) .. (i, usableCount - 1); its length is the sum of the counts;
\* the ranges are contiguous, disjoint, ascending, cover [0, len) and range i
\* holds exactly the entries of sequence i.
C2_LookupTable ==
    Constructed =>
        /\ Len(lut) = SumSeq(count)
        /\ Len(ranges) = Len(count)
        /\ Len(ranges) > 0
        /\ ranges[Len(ranges)][2] = Len(lut)
        /\ \A i \in 1..Len(ranges) :
              /\ ranges[i][1] = (IF i = 1 THEN 0 ELSE ranges[i - 1][2])
              /\ ranges[i][2] = ranges[i][1] + count[i]
              /\ \A p \in 0..(count[i] - 1) : lut[ranges[i][1] + p + 1] = <<i - 1, p>>
              /\ \A k \in 1..Len(lut) :
                    (ranges[i][1] < k /\ k <= ranges[i][2]) <=> (lut[k][1] = i - 1)
        /\ \A i, j \in 1..Len(poses) : i < j => SeqFile(i) < SeqFile(j)

\* C2 witness: a video dataset of two sequences with two samples or more each.
C2_Witness ==
    /\ Constructed
    /\ source = "video"
    /\ Len(count) = 2
    /\ count[1] >= 2
    /\ count[2] >= 2

\* The decimated rows of log k (timestamp column dropped) and, of these, the rows
\* strictly before the first one that holds NaN.
C5_Decimated(k) ==
    LET rows == pose_files[k].rows
        step == IF cfg.pose_fps \div cfg.target_fps >= 1
                THEN cfg.pose_fps \div cfg.target_fps ELSE 1
    IN  [i \in 1..((Len(rows) + step - 1) \div step) |->
            [pos |-> rows[(i - 1) * step + 1].pos,
             quat |-> rows[(i - 1) * step + 1].quat,
             nan |-> rows[(i - 1) * step + 1].nan]]

C5_BeforeFirstNaN(k) ==
    LET dec == C5_Decimated(k)
        clean == {i \in 1..Len(dec) : \A j \in 1..i : ~dec[j].nan}
    IN  [i \in 1..Cardinality(clean) |-> dec[i]]

\* C5: a video pose log with a NaN row is truncated to exactly the rows strictly
\* before the first such row: no retained pose holds NaN, every retained
\* sequence is that prefix of its log, and a log whose prefix leaves a usable
\* sample is retained.
C5_NaNTruncation ==
    (Constructed /\ source = "video") =>
        /\ \A i \in 1..Len(poses) : \A r \in 1..Len(poses[i]) : ~poses[i][r].nan
        /\ \A i \in 1..Len(poses) : poses[i] = C5_BeforeFirstNaN(video_path[i])
        /\ \A p \in 1..Len(pose_path) :
              LET tail == IF cfg.search_window >= cfg.wp_length
                          THEN cfg.search_window ELSE cfg.wp_length
              IN  Len(C5_BeforeFirstNaN(pose_path[p])) - cfg.context_size - tail > 0
                    => \E i \in 1..Len(video_path) : video_path[i] = pose_path[p]

\* C7: the sampler's order is a permutation of 0..N-1 in which the ids of
\* sequence i fill the positions [start_i, end_i); outside train mode it is
\* 0, 1, .., N-1; every iteration yields that same order, of length N.
C7_SamplerOrder ==
    indices # NoIndices =>
        /\ Len(indices) = Len(lut)
        /\ \A v \in 0..(Len(lut) - 1) : \E k \in 1..Len(indices) : indices[k] = v
        /\ \A i \in 1..Len(ranges) :
              {indices[k] : k \in (ranges[i][1] + 1)..ranges[i][2]}
                  = ranges[i][1]..(ranges[i][2] - 1)
        /\ mode # "train" => \A k \in 1..Len(indices) : indices[k] = k - 1
        /\ \A y \in 1..Len(yielded) : yielded[y] = indices /\ Len(yielded[y]) = Len(lut)

\* C7 witness: a train-mode sampler over two sequences, iterated twice, whose
\* order is shuffled inside both ranges.
C7_Witness ==
    /\ indices # NoIndices
    /\ mode = "train"
    /\ Len(yielded) = MaxIters
    /\ Len(ranges) = 2
    /\ indices[1] # 0
    /\ indices[Len(indices)] # Len(indices) - 1

Sampled == pc = "ready" /\ last.result = "sample"

\* The pose array of retained video sequence i (1-based) as the constructor
\* loaded it.
AsLoaded(i) == LoadPoses(pose_files[video_path[i]].rows, cfg)

\* C3: a request on the video dataset leaves the stored pose arrays as they
\* were before it and as the constructor loaded them, and the sample it returns
\* is the one the same draws give on the arrays as loaded.
C3_StoreUnchanged ==
    (source = "video" /\ pc = "ready" /\ nreq > 0) =>
        /\ poses = last.before
        /\ \A i \in 1..Len(poses) : poses[i] = AsLoaded(i)
        /\ last.result = "sample" =>
              LET fresh == CityWalkSample(AsLoaded(last.video_idx + 1), last.pose_start,
                                          cfg, mode, last.target_idx, last.noise).sample
              IN  \A f \in DOMAIN fresh : last.sample[f] = fresh[f]

\* C4: the waypoints, the transformed target and the transformed original
\* input positions of a video sample are those the same request gives with
\* input_noise = 0, i.e. the reference frame is the last input pose before noise.
C4_PreNoiseReference ==
    (source = "video" /\ Sampled) =>
        LET clean == CityWalkSample(last.before[last.video_idx + 1], last.pose_start,
                                    [cfg EXCEPT !.input_noise = 0], mode,
                                    last.target_idx, last.noise).sample
        IN  /\ last.sample.waypoints = clean.waypoints
            /\ mode = "val" =>
                  /\ last.sample.target_transformed = clean.target_transformed
                  /\ last.sample.original_input_positions
                        = clean.original_input_positions

\* C6: a request on the video dataset opens a reader iff its sequence id is not
\* the cached one (the first request always opens); afterwards the cached id is
\* the requested one and the reader used for the frames is the cached reader,
\* opened on that sequence's video.
C6_ReaderCache ==
    [][(source = "video" /\ nreq' = nreq + 1) =>
          /\ opened' \in {opened, opened + 1}
          /\ (opened' = opened + 1) <=> (video_reader_cache.video_idx # last'.video_idx)
          /\ nreq = 0 => opened' = 1
          /\ opened' = opened => video_reader_cache' = video_reader_cache
          /\ opened' = opened + 1 => video_reader_cache'.video_reader.handle = opened'
          /\ video_reader_cache'.video_idx = last'.video_idx
          /\ last'.video_idx = lut[last'.index + 1][1]
          /\ last'.video_reader = video_reader_cache'.video_reader
          /\ last'.video_reader.path = video_path[last'.video_idx + 1]
          /\ last'.result = "sample" =>
                last'.sample.video_frames.reader = video_reader_cache'.video_reader
      ]_vars

\* C6 witness: two requests served by one reader of a dataset of two videos.
C6_Witness ==
    /\ source = "video"
    /\ nreq = 2
    /\ opened = 1
    /\ Len(video_path) = 2
    /\ last.result = "sample"

C10_ArrivedLabel ==
    (source = "video" /\ Sampled) =>
        LET pose == AsLoaded(last.video_idx + 1)
            first == last.pose_start + cfg.context_size
            lastInput == pose[first].pos
            target == pose[first + last.target_idx + 1].pos
            near == Norm2(VSub(target, lastInput))
                       <= cfg.arrived_threshold * cfg.arrived_threshold
        IN  last.sample.arrived = (IF near THEN 1 ELSE 0)

\* C11: for every video request, the frame index asked of the reader for
\* context slot k is min((offset + k) * floor(video_fps / target_fps),
\* numFrames - 1), and every index lies in [0, numFrames - 1].
C11_FrameIndices ==
    (source = "video" /\ pc = "ready" /\ nreq > 0) =>
        LET numFrames == pose_files[video_path[last.video_idx + 1]].num_frames
            frameMultiplier == cfg.video_fps \div cfg.target_fps
        IN  /\ Len(last.frame_indices) = cfg.context_size
            /\ \A k \in 0..(cfg.context_size - 1) :
                  /\ last.frame_indices[k + 1]
                        = Min((last.pose_start + k) * frameMultiplier, numFrames - 1)
                  /\ last.frame_indices[k + 1] \in 0..(numFrames - 1)
            /\ last.result = "sample" =>
                  last.sample.video_frames.frames = last.frame_indices

\* C11 witness: a sample at the end of a sequence whose video is shorter than
\* the pose log, the last slot clamped and the first one not.
C11_Witness ==
    /\ source = "video"
    /\ Sampled
    /\ cfg.context_size = 2
    /\ last.pose_start = count[last.video_idx + 1] - 1
    /\ (last.pose_start + 1) * (cfg.video_fps \div cfg.target_fps)
          > pose_files[video_path[last.video_idx + 1]].num_frames - 1
    /\ last.pose_start * (cfg.video_fps \div cfg.target_fps)
          < pose_files[video_path[last.video_idx + 1]].num_frames - 1

\* C12: while the workers serve interleaved requests, the copy of worker w
\* (cache slot, reader count, stored poses) changes only in a request of
\* worker w; the reader a worker fetches frames from is the one in its own
\* slot and was opened by that worker; a request changes nothing of the other
\* workers nor of the dataset the clones were taken from.
C12_WorkerIsolation ==
    [][pc = "workers" =>
          /\ UNCHANGED <<dsVars, video_reader_cache, opened, last, nreq>>
          /\ \A w \in 1..NumWorkers :
                /\ copies'[w] # copies[w] => wlast'[w].n = wlast[w].n + 1
                /\ wlast'[w].n = wlast[w].n + 1 =>
                      /\ wlast'[w].opener = w
                      /\ copies'[w].opener = w
                      /\ wlast'[w].video_reader
                            = copies'[w].video_reader_cache.video_reader
                      /\ copies'[w].video_reader_cache.video_idx = wlast'[w].video_idx
                      /\ \A v \in 1..NumWorkers \ {w} :
                            copies'[v] = copies[v] /\ wlast'[v] = wlast[v]
      ]_vars

\* C12 witness: two workers have each served requests on the same video, each
\* through a reader of its own, and their stored poses have diverged.
C12_Witness ==
    /\ pc = "workers"
    /\ wlast[1].n = MaxRequests
    /\ wlast[2].n >= 1
    /\ wlast[1].video_idx = wlast[2].video_idx
    /\ wlast[1].opener = 1
    /\ wlast[2].opener = 2
    /\ copies[1].opened = 1
    /\ copies[1].poses # copies[2].poses

\* C13: every sample of either source holds video_frames, input_positions,
\* waypoints and arrived; it also holds original_input_positions,
\* noisy_input_positions, gt_waypoints and target_transformed iff the mode is
\* not 'train'; then gt_waypoints = waypoints and, for the robot source,
\* noisy_input_positions = original_input_positions.
C13_SampleKeys ==
    Sampled =>
        LET always == {"video_frames", "input_positions", "waypoints", "arrived"}
            extras == {"original_input_positions", "noisy_input_positions",
                       "gt_waypoints", "target_transformed"}
        IN  /\ DOMAIN last.sample
                  = (IF mode # "train" THEN always \cup extras ELSE always)
            /\ mode # "train" =>
                  /\ last.sample.gt_waypoints = last.sample.waypoints
                  /\ source = "robot" =>
                        last.sample.noisy_input_positions
                            = last.sample.original_input_positions

\* C13 witness: a robot sample in test mode.
C13_Witness ==
    /\ Sampled
    /\ source = "robot"
    /\ mode = "test"
    /\ "target_transformed" \in DOMAIN last.sample

\* C14: re-expressing a pose in its own frame gives the zero vector, from
\* transform_poses and from transform_target_pose alike; the last row of the
\* egocentric positions of a window whose reference is its last pose is zero.
C14_OwnFrameIsOrigin ==
    pc = "transformed" =>
        /\ last.own = << <<0, 0, 0>> >>
        /\ last.target = <<0, 0, 0>>
        /\ Len(last.input_positions) = Len(pose_files)
        /\ last.input_positions[Len(last.input_positions)] = <<0, 0, 0>>

\* C14 witness: a pose away from the origin, turned by a third of a turn (a
\* quaternion of squared norm 4), in a window whose first row is not at zero.
C14_Witness ==
    /\ pc = "transformed"
    /\ last.current_pose.pos = <<2, -1, 2>>
    /\ last.current_pose.quat = <<1, 1, 1, 1>>
    /\ last.input_positions[1] # <<0, 0, 0>>

\* C15: with input_noise <= 0 a video request adds no noise: no noise is
\* drawn, the stored poses stay as they were, the input poses used are the
\* stored rows, and input_positions is the egocentric transform of those rows
\* (equal to original_input_positions where that field is present).
C15_NoNoiseAtZero ==
    (source = "video" /\ Sampled /\ cfg.input_noise <= 0) =>
        LET stored == last.before[last.video_idx + 1]
            rows == [k \in 1..cfg.context_size |-> stored[last.pose_start + k]]
            ego == transform_poses(rows, rows[Len(rows)])
        IN  /\ \A k \in DOMAIN last.noise : last.noise[k] = <<0, 0, 0>>
            /\ poses = last.before
            /\ last.used.input_poses = rows
            /\ last.sample.input_positions
                  = [k \in 1..cfg.context_size |-> <<ego[k][1], ego[k][3]>>]
            /\ mode = "val" =>
                  /\ last.sample.input_positions = last.sample.original_input_positions
                  /\ last.sample.noisy_input_positions
                        = last.sample.original_input_positions

\* C15 witness: a second validation sample with sigma 0 over two input rows.
C15_Witness ==
    /\ source = "video"
    /\ Sampled
    /\ cfg.input_noise = 0
    /\ mode = "val"
    /\ cfg.context_size = 2
    /\ nreq = 2

\* C16: for every entry (sequence, offset) of the look-up table of either
\* source, the future window taken at offset + context_size is non-empty, and
\* no request ends in the 'No future poses/positions available' IndexError.
C16_FutureNonEmpty ==
    pc = "ready" =>
        /\ \A k \in 1..Len(lut) :
              LET store == IF source = "video" THEN poses[lut[k][1] + 1]
                           ELSE gps_positions[lut[k][1] + 1]
                  first == lut[k][2] + cfg.context_size
              IN  Min(first + cfg.search_window, Len(store)) - first > 0
        /\ nreq > 0 => last.result # "IndexError"

\* The time steps, in order, of the line pairs of log f whose GPS line and
\* pose line both hold enough fields.
WholePairs(f) ==
    LET lines == pose_files[f].lines
        whole == {k \in 0..((Len(lines) \div 2) - 1) :
                     lines[2 * k + 1].ntok >= 8 /\ lines[2 * k + 2].ntok >= 11}
    IN  [j \in 1..Cardinality(whole) |->
            CHOOSE k \in whole : Cardinality({m \in whole : m < k}) = j - 1]

\* C17: loading a robot log skips a line pair with a short GPS line or a short
\* pose line as a whole: the GPS fixes, the poses and the image names kept are
\* those of the pairs with two well-formed lines, in order; and no missing
\* line aborts the loading.
C17_SkipMalformed ==
    source = "robot" =>
        /\ pc # "IndexError"
        /\ pc = "ready" =>
              \A i \in 1..Len(poses) :
                 LET whole == WholePairs(SeqFile(i))
                 IN  /\ [j \in 1..Len(gps_positions[i]) |-> gps_positions[i][j].fix[2]]
                           = whole
                     /\ [j \in 1..Len(poses[i]) |-> poses[i][j].pos[1]] = whole
                     /\ [j \in 1..Len(image_names[i]) |-> image_names[i][j][2]] = whole

\* C18: in every retained robot sequence the GPS fixes, the poses and the
\* image names are equally many and their i-th elements come from the same
\* line pair; the GPS slice, the pose slice and the frame window of a request
\* (and its target fix and target pose) are of the same time steps.
C18_SameLinePair ==
    (source = "robot" /\ pc = "ready") =>
        /\ \A i \in 1..Len(poses) :
              /\ Len(gps_positions[i]) = Len(poses[i])
              /\ Len(image_names[i]) = Len(poses[i])
              /\ \A j \in 1..Len(poses[i]) :
                    /\ j <= Len(gps_positions[i])
                          => gps_positions[i][j].fix[2] = poses[i][j].pos[1]
                    /\ j <= Len(image_names[i])
                          => image_names[i][j][2] = poses[i][j].pos[1]
        /\ last.result = "sample" =>
              /\ \A k \in 1..cfg.context_size :
                    /\ last.used.input_gps_positions[k].fix[2]
                          = last.used.input_poses[k].pos[1]
                    /\ last.used.input_image_names[k][2]
                          = last.used.input_poses[k].pos[1]
              /\ last.used.target_gps_position.fix[2] = last.used.target_pose.pos[1]

\* C19: after the construction-time filtering the per-sequence lists have one
\* length and stay aligned: at every retained index the media source (video
\* path or image folder), the poses, the GPS fixes, the image names and the
\* count belong to one log file.
C19_ListsAligned ==
    pc = "ready" =>
        /\ Len(count) = Len(poses)
        /\ source = "video" =>
              /\ Len(video_path) = Len(poses)
              /\ \A i \in 1..Len(poses) : video_path[i] = SeqFile(i)
        /\ source = "robot" =>
              /\ Len(image_folders) = Len(poses)
              /\ Len(gps_positions) = Len(poses)
              /\ Len(image_names) = Len(poses)
              /\ \A i \in 1..Len(poses) :
                    /\ i <= Len(image_folders) => image_folders[i] = SeqFile(i)
                    /\ gps_positions[i][1].fix[1] = SeqFile(i)
                    /\ image_names[i][1][1] = SeqFile(i)

====
